---------------------------- MODULE Spec2Model ----------------------------
(***************************************************************************)
(* Model of three oxc_linter rules and of the traversal that runs them:    *)
(*   jsx_a11y/role_has_required_aria_props.rs                              *)
(*   nextjs/google_font_preconnect.rs                                      *)
(*   nextjs/no_sync_scripts.rs                                             *)
(* A Rust &str is a sequence of one-character strings, so that             *)
(* to_lowercase, split_whitespace and starts_with are computed character   *)
(* by character.  A Span is the pair (node index, item index) of the       *)
(* source range it covers: item 0 is the element name, item i >= 1 the     *)
(* i-th attribute.  An Option is a record with a boolean field `some`.     *)
(***************************************************************************)
EXTENDS Naturals, Sequences, FiniteSets

VARIABLES registry, tree, pos, ruleIdx, diagnostics, phf_order

vars == <<registry, tree, pos, ruleIdx, diagnostics, phf_order>>

-----------------------------------------------------------------------------
(* String literals that occur in the rules' code. *)
S_role == <<"r", "o", "l", "e">>
S_script == <<"s", "c", "r", "i", "p", "t">>
S_src == <<"s", "r", "c">>
S_async == <<"a", "s", "y", "n", "c">>
S_defer == <<"d", "e", "f", "e", "r">>
S_link == <<"l", "i", "n", "k">>
S_href == <<"h", "r", "e", "f">>
S_rel == <<"r", "e", "l">>
S_preconnect == <<"p", "r", "e", "c", "o", "n", "n", "e", "c", "t">>
S_fonts_gstatic == <<"h", "t", "t", "p", "s", ":", "/", "/", "f", "o", "n", "t", "s", ".", "g", "s", "t", "a", "t", "i", "c", ".", "c", "o", "m">>
S_checkbox == <<"c", "h", "e", "c", "k", "b", "o", "x">>
S_radio == <<"r", "a", "d", "i", "o">>
S_combobox == <<"c", "o", "m", "b", "o", "b", "o", "x">>
S_tab == <<"t", "a", "b">>
S_slider == <<"s", "l", "i", "d", "e", "r">>
S_scrollbar == <<"s", "c", "r", "o", "l", "l", "b", "a", "r">>
S_heading == <<"h", "e", "a", "d", "i", "n", "g">>
S_option == <<"o", "p", "t", "i", "o", "n">>
S_aria_checked == <<"a", "r", "i", "a", "-", "c", "h", "e", "c", "k", "e", "d">>
S_aria_controls == <<"a", "r", "i", "a", "-", "c", "o", "n", "t", "r", "o", "l", "s">>
S_aria_expanded == <<"a", "r", "i", "a", "-", "e", "x", "p", "a", "n", "d", "e", "d">>
S_aria_selected == <<"a", "r", "i", "a", "-", "s", "e", "l", "e", "c", "t", "e", "d">>
S_aria_valuemax == <<"a", "r", "i", "a", "-", "v", "a", "l", "u", "e", "m", "a", "x">>
S_aria_valuemin == <<"a", "r", "i", "a", "-", "v", "a", "l", "u", "e", "m", "i", "n">>
S_aria_valuenow == <<"a", "r", "i", "a", "-", "v", "a", "l", "u", "e", "n", "o", "w">>
S_aria_orientation == <<"a", "r", "i", "a", "-", "o", "r", "i", "e", "n", "t", "a", "t", "i", "o", "n">>
S_aria_level == <<"a", "r", "i", "a", "-", "l", "e", "v", "e", "l">>

(* Strings that occur only in the analysed programs (fixtures). *)
S_Role == <<"R", "o", "l", "e">>
S_SRC == <<"S", "R", "C">>
S_Async == <<"A", "s", "y", "n", "c">>
S_HREF == <<"H", "R", "E", "F">>
S_REL == <<"R", "E", "L">>
S_Aria_Checked == <<"A", "r", "i", "a", "-", "C", "h", "e", "c", "k", "e", "d">>
S_aria_chcked == <<"a", "r", "i", "a", "-", "c", "h", "c", "k", "e", "d">>
S_div == <<"d", "i", "v">>
S_Foo == <<"F", "o", "o">>
S_xlink == <<"x", "l", "i", "n", "k">>
S_row == <<"r", "o", "w">>
S_false == <<"f", "a", "l", "s", "e">>
S_a_js == <<"a", ".", "j", "s">>
S_preload == <<"p", "r", "e", "l", "o", "a", "d">>
S_fonts_gstatic_path == S_fonts_gstatic \o <<"/", "s">>
S_fonts_short == SubSeq(S_fonts_gstatic, 1, Len(S_fonts_gstatic) - 1)
S_preconnect_noopener == S_preconnect \o <<" ">> \o <<"n", "o", "o", "p", "e", "n", "e", "r">>
S_checkbox_checkbox == S_checkbox \o <<" ">> \o S_checkbox
S_combobox_checkbox == <<" ">> \o S_combobox \o <<"\t", " ">> \o S_checkbox \o <<" ">>
S_row_tab == S_row \o <<" ">> \o S_tab

-----------------------------------------------------------------------------
(* Option<T> *)
None == [some |-> FALSE]

Some(x) == [some |-> TRUE, val |-> x]

(* str::to_lowercase, on the ASCII letters *)
UpperLetters ==
    <<"A", "B", "C", "D", "E", "F", "G", "H", "I", "J", "K", "L", "M",
      "N", "O", "P", "Q", "R", "S", "T", "U", "V", "W", "X", "Y", "Z">>

LowerLetters ==
    <<"a", "b", "c", "d", "e", "f", "g", "h", "i", "j", "k", "l", "m",
      "n", "o", "p", "q", "r", "s", "t", "u", "v", "w", "x", "y", "z">>

char_to_lowercase(c) ==
    IF \E i \in 1..Len(UpperLetters) : UpperLetters[i] = c
    THEN LowerLetters[CHOOSE i \in 1..Len(UpperLetters) : UpperLetters[i] = c]
    ELSE c

to_lowercase(s) == [i \in 1..Len(s) |-> char_to_lowercase(s[i])]

(* char::is_whitespace, on the whitespace a JSX string literal can hold *)
is_whitespace(c) == c \in {" ", "\t", "\n"}

(* str::split_whitespace: the maximal runs of non-whitespace characters,   *)
(* in order; s is scanned from index i, cur is the run being read.         *)
RECURSIVE split_whitespace_from(_, _, _)
split_whitespace_from(s, i, cur) ==
    IF i > Len(s)
    THEN IF cur = <<>> THEN <<>> ELSE <<cur>>
    ELSE IF is_whitespace(s[i])
         THEN (IF cur = <<>> THEN <<>> ELSE <<cur>>)
              \o split_whitespace_from(s, i + 1, <<>>)
         ELSE split_whitespace_from(s, i + 1, Append(cur, s[i]))

split_whitespace(s) == split_whitespace_from(s, 1, <<>>)

(* str::starts_with *)
starts_with(s, prefix) ==
    /\ Len(prefix) <= Len(s)
    /\ SubSeq(s, 1, Len(prefix)) = prefix

-----------------------------------------------------------------------------
(* The syntax tree (oxc_ast), as the rules read it. *)
Span(node, item) == [node |-> node, item |-> item]

(* JSXElementName: Identifier (<script>) or MemberExpression (<Foo.script>) *)
JSXIdentifier(name) == [type |-> "Identifier", name |-> name]

JSXMemberExpression(object, property) ==
    [type |-> "MemberExpression", object |-> object, name |-> property]

(* JSXAttributeName: Identifier (src) or NamespacedName (xlink:href) *)
JSXNamespacedName(namespace, property) ==
    [type |-> "NamespacedName", namespace |-> namespace, name |-> property]

(* Option<JSXAttributeValue>: absent (<a b />), a string literal           *)
(* (<a b="s" />) or an expression container (<a b={e} />); of the          *)
(* expression only its kind is kept and, for `x || 'lit'`, the literal.    *)
NoValue == [type |-> "None"]

StringLiteral(value) == [type |-> "StringLiteral", value |-> value]

ExpressionContainer(expression, literal) ==
    [type |-> "ExpressionContainer", expression |-> expression, literal |-> literal]

(* JSXAttributeItem: Attribute or SpreadAttribute ({...props}) *)
JSXAttribute(name, value) == [type |-> "Attribute", name |-> name, value |-> value]

JSXSpreadAttribute == [type |-> "SpreadAttribute"]

(* AstKind::JSXOpeningElement and one kind no rule is interested in *)
JSXOpeningElement(name, attributes) ==
    [kind |-> "JSXOpeningElement", name |-> name, attributes |-> attributes]

JSXElementNode == [kind |-> "JSXElement"]

(* The parser's spans: node k of the file, its name and its attributes. *)
WithSpans(k, node) ==
    IF node.kind # "JSXOpeningElement"
    THEN [kind |-> node.kind, span |-> Span(k, 0)]
    ELSE [kind |-> node.kind,
          name |-> [type |-> node.name.type, name |-> node.name.name,
                    span |-> Span(k, 0)],
          attributes |->
              [i \in 1..Len(node.attributes) |->
                  IF node.attributes[i].type = "Attribute"
                  THEN [type |-> "Attribute",
                        name |-> node.attributes[i].name,
                        value |-> node.attributes[i].value,
                        span |-> Span(k, i)]
                  ELSE [type |-> "SpreadAttribute", span |-> Span(k, i)]]]

-----------------------------------------------------------------------------
(* crate::utils (spec section 4.3) *)

(* has_jsx_prop_lowercase: the first named attribute whose name matches    *)
(* target_prop case-insensitively; spread attributes are ignored.          *)
jsx_prop_matches(item, target_prop) ==
    /\ item.type = "Attribute"
    /\ item.name.type = "Identifier"
    /\ to_lowercase(item.name.name) = to_lowercase(target_prop)

has_jsx_prop_lowercase(node, target_prop) ==
    LET hits == {i \in 1..Len(node.attributes) :
                    jsx_prop_matches(node.attributes[i], target_prop)}
    IN  IF hits = {}
        THEN None
        ELSE Some(node.attributes[CHOOSE i \in hits : \A j \in hits : i <= j])

(* get_string_literal_prop_value: the string of a plain string literal     *)
(* value; absent for no value and for an expression value.                 *)
get_string_literal_prop_value(item) ==
    IF item.type = "Attribute" /\ item.value.type = "StringLiteral"
    THEN Some(item.value.value)
    ELSE None

(* LintContext::diagnostic: push onto the file's diagnostic sink *)
ctx_diagnostic(ctx, diagnostic) == Append(ctx, diagnostic)

Reverse(s) == [i \in 1..Len(s) |-> s[Len(s) + 1 - i]]

-----------------------------------------------------------------------------
(* jsx_a11y/role_has_required_aria_props.rs *)

RoleHasRequiredAriaPropsDiagnostic(span, role, props) ==
    [kind |-> "RoleHasRequiredAriaPropsDiagnostic",
     span |-> span, role |-> role, props |-> props]

(* The phf_map of phf_sets, each set in the order it is written. *)
ROLE_TO_REQUIRED_ARIA_PROPS ==
    << <<S_checkbox, <<S_aria_checked>> >>,
       <<S_radio, <<S_aria_checked>> >>,
       <<S_combobox, <<S_aria_controls, S_aria_expanded>> >>,
       <<S_tab, <<S_aria_selected>> >>,
       <<S_slider, <<S_aria_valuemax, S_aria_valuemin, S_aria_valuenow>> >>,
       <<S_scrollbar, <<S_aria_valuemax, S_aria_valuemin, S_aria_valuenow,
                        S_aria_orientation, S_aria_controls>> >>,
       <<S_heading, <<S_aria_level>> >>,
       <<S_option, <<S_aria_selected>> >> >>

(* phf::Map::get: exact, case-sensitive key equality *)
phf_map_get(map, key) ==
    IF \E i \in 1..Len(map) : map[i][1] = key
    THEN Some(map[CHOOSE i \in 1..Len(map) : map[i][1] = key][2])
    ELSE None

(* phf::Set::iter: the order is fixed when the set is built and is not the *)
(* order it is written in; phf_order is the order this build produced.     *)
phf_set_iter(set) == IF phf_order = "declared" THEN set ELSE Reverse(set)

(* Mutant of required_props_loop: the loop ends at the first missing prop. *)
RECURSIVE required_props_loop_first(_, _, _, _, _)
required_props_loop_first(jsx_el, attr, role, props, ctx) ==
    IF props = <<>>
    THEN ctx
    ELSE IF ~has_jsx_prop_lowercase(jsx_el, Head(props)).some
         THEN ctx_diagnostic(ctx, RoleHasRequiredAriaPropsDiagnostic(
                                      attr.span, role, Head(props)))
         ELSE required_props_loop_first(jsx_el, attr, role, Tail(props), ctx)

(* lines 70-78: one diagnostic for each required prop the element lacks;   *)
(* props is what is left of the set's iteration.                           *)
RECURSIVE required_props_loop(_, _, _, _, _)
required_props_loop(jsx_el, attr, role, props, ctx) ==
    IF props = <<>>
    THEN ctx
    ELSE required_props_loop(
             jsx_el, attr, role, Tail(props),
             IF ~has_jsx_prop_lowercase(jsx_el, Head(props)).some
             THEN ctx_diagnostic(ctx, RoleHasRequiredAriaPropsDiagnostic(
                                          attr.span, role, Head(props)))
             ELSE ctx)

(* lines 68-80: every token of the role value, in order *)
RECURSIVE roles_loop(_, _, _, _)
roles_loop(jsx_el, attr, roles, ctx) ==
    IF roles = <<>>
    THEN ctx
    ELSE LET role == Head(roles)
             props == phf_map_get(ROLE_TO_REQUIRED_ARIA_PROPS, role)
         IN  roles_loop(
                 jsx_el, attr, Tail(roles),
                 IF props.some
                 THEN required_props_loop(jsx_el, attr, role,
                                          phf_set_iter(props.val), ctx)
                 ELSE ctx)

(* Mutant of role_values: `x || 'lit'` is read as its literal. *)
role_values_evaluated(attr) ==
    IF attr.value.type = "StringLiteral"
    THEN Some(attr.value.value)
    ELSE IF attr.value.type = "ExpressionContainer"
            /\ attr.value.expression = "LogicalExpression"
         THEN Some(attr.value.literal)
         ELSE None

(* line 66: Some(JSXAttributeValue::StringLiteral(role_values)) = &attr.value *)
role_values(attr) ==
    IF attr.value.type = "StringLiteral" THEN Some(attr.value.value) ELSE None

(* Mutant of roles_of: the value is looked up whole. *)
roles_of_whole(value) == <<value>>

(* line 67: role_values.value.split_whitespace() *)
roles_of(value) == split_whitespace(value)

(* RoleHasRequiredAriaProps::run; the result is the sink after the call *)
RoleHasRequiredAriaProps_run(node, ctx) ==
    IF node.kind # "JSXOpeningElement"
    THEN ctx
    ELSE LET role_prop == has_jsx_prop_lowercase(node, S_role)
         IN  IF ~role_prop.some
             THEN ctx
             ELSE IF role_prop.val.type # "Attribute"
             THEN ctx
             ELSE IF ~role_values(role_prop.val).some
             THEN ctx
             ELSE roles_loop(node, role_prop.val,
                             roles_of(role_values(role_prop.val).val), ctx)

-----------------------------------------------------------------------------
(* nextjs/google_font_preconnect.rs *)

GoogleFontPreconnectDiagnostic(span) ==
    [kind |-> "GoogleFontPreconnectDiagnostic", span |-> span]

(* Mutant of preconnect_missing: `rel` is looked up as written. *)
preconnect_missing_exact_name(jsx_opening_element) ==
    LET hits == {i \in 1..Len(jsx_opening_element.attributes) :
                    /\ jsx_opening_element.attributes[i].type = "Attribute"
                    /\ jsx_opening_element.attributes[i].name = JSXIdentifier(S_rel)}
    IN  IF hits = {}
        THEN TRUE
        ELSE get_string_literal_prop_value(
                 jsx_opening_element.attributes[
                     CHOOSE i \in hits : \A j \in hits : i <= j])
             # Some(S_preconnect)

(* Mutant of preconnect_missing: `preconnect` need only be one of the     *)
(* tokens of rel.                                                          *)
preconnect_missing_token(jsx_opening_element) ==
    LET rel_prop == has_jsx_prop_lowercase(jsx_opening_element, S_rel)
    IN  IF ~rel_prop.some
        THEN TRUE
        ELSE LET rel_prop_value == get_string_literal_prop_value(rel_prop.val)
             IN  IF ~rel_prop_value.some
                 THEN TRUE
                 ELSE \A i \in 1..Len(split_whitespace(rel_prop_value.val)) :
                          split_whitespace(rel_prop_value.val)[i] # S_preconnect

(* lines 58-62: has_jsx_prop_lowercase(.., "rel").map_or(true, |rel_prop|  *)
(* get_string_literal_prop_value(rel_prop) != Some("preconnect"))          *)
preconnect_missing(jsx_opening_element) ==
    LET rel_prop == has_jsx_prop_lowercase(jsx_opening_element, S_rel)
    IN  IF ~rel_prop.some
        THEN TRUE
        ELSE get_string_literal_prop_value(rel_prop.val) # Some(S_preconnect)

(* Mutant of GoogleFontPreconnect_run: the diagnostic replaces the sink. *)
GoogleFontPreconnect_run_overwrite(node, ctx) ==
    IF node.kind # "JSXOpeningElement"
    THEN ctx
    ELSE IF node.name.type # "Identifier" \/ node.name.name # S_link
    THEN ctx
    ELSE LET href_prop == has_jsx_prop_lowercase(node, S_href)
         IN  IF ~href_prop.some
             THEN ctx
             ELSE IF ~get_string_literal_prop_value(href_prop.val).some
             THEN ctx
             ELSE IF /\ starts_with(get_string_literal_prop_value(href_prop.val).val,
                                    S_fonts_gstatic)
                     /\ preconnect_missing(node)
                  THEN <<GoogleFontPreconnectDiagnostic(node.name.span)>>
                  ELSE ctx

(* GoogleFontPreconnect::run *)
GoogleFontPreconnect_run(node, ctx) ==
    IF node.kind # "JSXOpeningElement"
    THEN ctx
    ELSE IF node.name.type # "Identifier"
    THEN ctx
    ELSE IF node.name.name # S_link
    THEN ctx
    ELSE LET href_prop == has_jsx_prop_lowercase(node, S_href)
         IN  IF ~href_prop.some
             THEN ctx
             ELSE LET href_prop_value ==
                          get_string_literal_prop_value(href_prop.val)
                  IN  IF ~href_prop_value.some
                      THEN ctx
                      ELSE IF /\ starts_with(href_prop_value.val, S_fonts_gstatic)
                              /\ preconnect_missing(node)
                           THEN ctx_diagnostic(
                                    ctx, GoogleFontPreconnectDiagnostic(node.name.span))
                           ELSE ctx

-----------------------------------------------------------------------------
(* nextjs/no_sync_scripts.rs *)

NoSyncScriptsDiagnostic(span) ==
    [kind |-> "NoSyncScriptsDiagnostic", span |-> span]

(* Mutant of attributes_hs: a spread attribute is taken to bring `async`. *)
attributes_hs_spread(jsx_opening_element) ==
    {jsx_opening_element.attributes[i].name.name :
        i \in {j \in 1..Len(jsx_opening_element.attributes) :
                  /\ jsx_opening_element.attributes[j].type = "Attribute"
                  /\ jsx_opening_element.attributes[j].name.type = "Identifier"}}
    \cup (IF \E i \in 1..Len(jsx_opening_element.attributes) :
                 jsx_opening_element.attributes[i].type = "SpreadAttribute"
          THEN {S_async}
          ELSE {})

(* lines 49-67: the names of the named attributes whose name is an         *)
(* identifier, as written (an FxHashSet)                                   *)
attributes_hs(jsx_opening_element) ==
    {jsx_opening_element.attributes[i].name.name :
        i \in {j \in 1..Len(jsx_opening_element.attributes) :
                  /\ jsx_opening_element.attributes[j].type = "Attribute"
                  /\ jsx_opening_element.attributes[j].name.type = "Identifier"}}

(* Mutant of is_sync_script: `async` and `defer` must both be there. *)
is_sync_script_or(hs) ==
    /\ S_src \in hs
    /\ S_async \notin hs \/ S_defer \notin hs

(* lines 69-71 *)
is_sync_script(hs) ==
    /\ S_src \in hs
    /\ S_async \notin hs
    /\ S_defer \notin hs

(* Mutant of NoSyncScripts_run: nothing is reported on a node the sink     *)
(* already holds a diagnostic on.                                          *)
NoSyncScripts_run_dedup(node, ctx) ==
    IF node.kind # "JSXOpeningElement"
    THEN ctx
    ELSE IF node.name.type # "Identifier" \/ node.name.name # S_script
    THEN ctx
    ELSE IF /\ S_src \in attributes_hs(node)
            /\ S_async \notin attributes_hs(node)
            /\ S_defer \notin attributes_hs(node)
            /\ \A i \in 1..Len(ctx) : ctx[i].span.node # node.name.span.node
         THEN ctx_diagnostic(ctx, NoSyncScriptsDiagnostic(node.name.span))
         ELSE ctx

(* NoSyncScripts::run *)
NoSyncScripts_run(node, ctx) ==
    IF node.kind # "JSXOpeningElement"
    THEN ctx
    ELSE IF node.name.type # "Identifier"
    THEN ctx
    ELSE IF node.name.name # S_script
    THEN ctx
    ELSE IF is_sync_script(attributes_hs(node))
         THEN ctx_diagnostic(ctx, NoSyncScriptsDiagnostic(node.name.span))
         ELSE ctx

-----------------------------------------------------------------------------
(* Bounds of the analysed programs. *)
MaxAttrs == 2

MaxNodes == 2

SeqsUpTo(S, n) == UNION {[1..k -> S] : k \in 0..n}

(* The attributes the analysed elements are built from. *)
ScriptAttrs ==
    { JSXAttribute(JSXIdentifier(S_src), StringLiteral(S_a_js)),
      JSXAttribute(JSXIdentifier(S_src), ExpressionContainer("MemberExpression", <<>>)),
      JSXAttribute(JSXIdentifier(S_src), NoValue),
      JSXAttribute(JSXIdentifier(S_SRC), StringLiteral(S_a_js)),
      JSXAttribute(JSXIdentifier(S_async), NoValue),
      JSXAttribute(JSXIdentifier(S_Async), NoValue),
      JSXAttribute(JSXIdentifier(S_defer), NoValue),
      JSXAttribute(JSXNamespacedName(S_xlink, S_src), StringLiteral(S_a_js)),
      JSXSpreadAttribute }

LinkAttrs ==
    { JSXAttribute(JSXIdentifier(S_href), StringLiteral(S_fonts_gstatic)),
      JSXAttribute(JSXIdentifier(S_href), StringLiteral(S_fonts_gstatic_path)),
      JSXAttribute(JSXIdentifier(S_href), StringLiteral(S_fonts_short)),
      JSXAttribute(JSXIdentifier(S_href), ExpressionContainer("MemberExpression", <<>>)),
      JSXAttribute(JSXIdentifier(S_href), NoValue),
      JSXAttribute(JSXIdentifier(S_HREF), StringLiteral(S_fonts_gstatic)),
      JSXAttribute(JSXIdentifier(S_rel), StringLiteral(S_preconnect)),
      JSXAttribute(JSXIdentifier(S_rel), StringLiteral(S_preload)),
      JSXAttribute(JSXIdentifier(S_rel), StringLiteral(S_preconnect_noopener)),
      JSXAttribute(JSXIdentifier(S_rel), ExpressionContainer("Identifier", <<>>)),
      JSXAttribute(JSXIdentifier(S_rel), NoValue),
      JSXAttribute(JSXIdentifier(S_REL), StringLiteral(S_preconnect)),
      JSXSpreadAttribute }

RoleAttrs ==
    { JSXAttribute(JSXIdentifier(S_role), StringLiteral(S_checkbox)),
      JSXAttribute(JSXIdentifier(S_role), StringLiteral(S_combobox)),
      JSXAttribute(JSXIdentifier(S_role), StringLiteral(S_checkbox_checkbox)),
      JSXAttribute(JSXIdentifier(S_role), StringLiteral(S_combobox_checkbox)),
      JSXAttribute(JSXIdentifier(S_role), StringLiteral(S_row_tab)),
      JSXAttribute(JSXIdentifier(S_role), ExpressionContainer("Identifier", <<>>)),
      JSXAttribute(JSXIdentifier(S_role), ExpressionContainer("LogicalExpression", S_checkbox)),
      JSXAttribute(JSXIdentifier(S_role), NoValue),
      JSXAttribute(JSXIdentifier(S_Role), StringLiteral(S_checkbox)),
      JSXAttribute(JSXIdentifier(S_aria_checked), StringLiteral(S_false)),
      JSXAttribute(JSXIdentifier(S_aria_checked), NoValue),
      JSXAttribute(JSXIdentifier(S_Aria_Checked), StringLiteral(S_false)),
      JSXAttribute(JSXIdentifier(S_aria_chcked), NoValue),
      JSXAttribute(JSXIdentifier(S_aria_controls), NoValue),
      JSXAttribute(JSXIdentifier(S_aria_expanded), ExpressionContainer("Identifier", <<>>)),
      JSXSpreadAttribute }

(* For a role of the table: the role and each of its required props. *)
RoleAttrsOf(entry) ==
    {JSXAttribute(JSXIdentifier(S_role), StringLiteral(entry[1]))}
    \cup {JSXAttribute(JSXIdentifier(entry[2][i]), NoValue) : i \in 1..Len(entry[2])}

Elements(names, attrs) ==
    {JSXOpeningElement(n, a) : n \in names, a \in SeqsUpTo(attrs, MaxAttrs)}

(* The elements a fixture of the test harness holds. *)
FixtureElements ==
    Elements({JSXIdentifier(S_script), JSXIdentifier(S_div),
              JSXMemberExpression(S_Foo, S_script)}, ScriptAttrs)
    \cup Elements({JSXIdentifier(S_link), JSXIdentifier(S_div),
                   JSXMemberExpression(S_Foo, S_link)}, LinkAttrs)
    \cup Elements({JSXIdentifier(S_div), JSXIdentifier(S_script)}, RoleAttrs)
    \cup UNION {Elements({JSXIdentifier(S_div)},
                         RoleAttrsOf(ROLE_TO_REQUIRED_ARIA_PROPS[i])) :
                   i \in 1..Len(ROLE_TO_REQUIRED_ARIA_PROPS)}

(* The nodes of a file the linter traverses: elements of the rules' tests  *)
(* and of the spec's scenarios, and elements two rules report.             *)
TraversalNodes ==
    { JSXElementNode,
      JSXOpeningElement(JSXIdentifier(S_div),
          <<JSXAttribute(JSXIdentifier(S_role), StringLiteral(S_checkbox))>>),
      JSXOpeningElement(JSXIdentifier(S_div),
          <<JSXAttribute(JSXIdentifier(S_role), StringLiteral(S_combobox))>>),
      JSXOpeningElement(JSXIdentifier(S_div),
          <<JSXAttribute(JSXIdentifier(S_role), StringLiteral(S_checkbox)),
            JSXAttribute(JSXIdentifier(S_aria_checked), StringLiteral(S_false))>>),
      JSXOpeningElement(JSXIdentifier(S_script),
          <<JSXAttribute(JSXIdentifier(S_src), StringLiteral(S_a_js))>>),
      JSXOpeningElement(JSXIdentifier(S_script),
          <<JSXAttribute(JSXIdentifier(S_src), StringLiteral(S_a_js)),
            JSXAttribute(JSXIdentifier(S_async), NoValue)>>),
      JSXOpeningElement(JSXIdentifier(S_link),
          <<JSXAttribute(JSXIdentifier(S_href), StringLiteral(S_fonts_gstatic))>>),
      JSXOpeningElement(JSXIdentifier(S_link),
          <<JSXAttribute(JSXIdentifier(S_rel), StringLiteral(S_preconnect)),
            JSXAttribute(JSXIdentifier(S_href), StringLiteral(S_fonts_gstatic))>>),
      JSXOpeningElement(JSXIdentifier(S_script),
          <<JSXAttribute(JSXIdentifier(S_src), StringLiteral(S_a_js)),
            JSXAttribute(JSXIdentifier(S_role), StringLiteral(S_combobox))>>),
      JSXOpeningElement(JSXIdentifier(S_link),
          <<JSXAttribute(JSXIdentifier(S_role), StringLiteral(S_checkbox)),
            JSXAttribute(JSXIdentifier(S_href), StringLiteral(S_fonts_gstatic))>>) }

-----------------------------------------------------------------------------
(* The rule registry and the traversal (spec section 4.2): every node in   *)
(* pre-order, and on each node every registered rule in registration       *)
(* order.  pos is the node being visited, ruleIdx the next rule to run on  *)
(* it.                                                                     *)
Rules == {"RoleHasRequiredAriaProps", "GoogleFontPreconnect", "NoSyncScripts"}

Registries ==
    {r \in SeqsUpTo(Rules, Cardinality(Rules)) :
        /\ r # <<>>
        /\ \A i, j \in 1..Len(r) : i # j => r[i] # r[j]}

PhfOrders == {"declared", "reversed"}

Parse(nodes) == [k \in 1..Len(nodes) |-> WithSpans(k, nodes[k])]

(* One file under a registry the configuration selected. *)
Init ==
    /\ registry \in Registries
    /\ phf_order \in PhfOrders
    /\ tree \in {Parse(t) : t \in SeqsUpTo(TraversalNodes, MaxNodes) \ {<<>>}}
    /\ pos = 1
    /\ ruleIdx = 1
    /\ diagnostics = <<>>

(* The test harness (spec section 4.6): a registry of the rule under test  *)
(* alone, over one fixture.                                                *)
InitTester ==
    /\ registry \in {<<r>> : r \in Rules}
    /\ phf_order \in PhfOrders
    /\ tree \in {Parse(<<JSXElementNode, e>>) : e \in FixtureElements}
    /\ pos = 1
    /\ ruleIdx = 1
    /\ diagnostics = <<>>

Invoking(rule) ==
    /\ pos <= Len(tree)
    /\ ruleIdx <= Len(registry)
    /\ registry[ruleIdx] = rule

RunRoleHasRequiredAriaProps ==
    /\ Invoking("RoleHasRequiredAriaProps")
    /\ diagnostics' = RoleHasRequiredAriaProps_run(tree[pos], diagnostics)
    /\ ruleIdx' = ruleIdx + 1
    /\ UNCHANGED <<registry, tree, pos, phf_order>>

RunGoogleFontPreconnect ==
    /\ Invoking("GoogleFontPreconnect")
    /\ diagnostics' = GoogleFontPreconnect_run(tree[pos], diagnostics)
    /\ ruleIdx' = ruleIdx + 1
    /\ UNCHANGED <<registry, tree, pos, phf_order>>

RunNoSyncScripts ==
    /\ Invoking("NoSyncScripts")
    /\ diagnostics' = NoSyncScripts_run(tree[pos], diagnostics)
    /\ ruleIdx' = ruleIdx + 1
    /\ UNCHANGED <<registry, tree, pos, phf_order>>

(* Every rule has run on the node: on to the next node of the traversal. *)
NextNode ==
    /\ pos <= Len(tree)
    /\ ruleIdx > Len(registry)
    /\ pos' = pos + 1
    /\ ruleIdx' = 1
    /\ UNCHANGED <<registry, tree, diagnostics, phf_order>>

Next ==
    \/ RunRoleHasRequiredAriaProps
    \/ RunGoogleFontPreconnect
    \/ RunNoSyncScripts
    \/ NextNode

Spec == Init /\ [][Next]_vars

SpecTester == InitTester /\ [][Next]_vars

-----------------------------------------------------------------------------
(* What the properties below speak of. *)

(* The node being visited. *)
cur == tree[pos]

(* Rule::run of the named rule *)
rule_run(rule, node, ctx) ==
    CASE rule = "RoleHasRequiredAriaProps" -> RoleHasRequiredAriaProps_run(node, ctx)
      [] rule = "GoogleFontPreconnect" -> GoogleFontPreconnect_run(node, ctx)
      [] rule = "NoSyncScripts" -> NoSyncScripts_run(node, ctx)

DiagnosticOf(rule) ==
    CASE rule = "RoleHasRequiredAriaProps" -> "RoleHasRequiredAriaPropsDiagnostic"
      [] rule = "GoogleFontPreconnect" -> "GoogleFontPreconnectDiagnostic"
      [] rule = "NoSyncScripts" -> "NoSyncScriptsDiagnostic"

(* The rule has been invoked on node k of the file. *)
HasRunOn(rule, k) ==
    \E i \in 1..Len(registry) :
        /\ registry[i] = rule
        /\ \/ k < pos
           \/ k = pos /\ i < ruleIdx

(* The rule has been invoked on the JSX opening element being visited. *)
HasRun(rule) ==
    /\ pos <= Len(tree)
    /\ cur.kind = "JSXOpeningElement"
    /\ HasRunOn(rule, pos)

(* The sink's diagnostics of a rule, and those of them on node k. *)
OwnDiagnostics(rule) ==
    SelectSeq(diagnostics, LAMBDA d : d.kind = DiagnosticOf(rule))

ReportsOn(rule, k) ==
    SelectSeq(diagnostics, LAMBDA d : d.kind = DiagnosticOf(rule) /\ d.span.node = k)

(* How many diagnostics the rule gives for an element on an empty sink. *)
CountFor(rule, el) == Len(rule_run(rule, el, <<>>))

(* The element has a named attribute spelled exactly `name`. *)
HasNamed(el, name) ==
    \E i \in 1..Len(el.attributes) :
        /\ el.attributes[i].type = "Attribute"
        /\ el.attributes[i].name.type = "Identifier"
        /\ el.attributes[i].name.name = name

(* The element has a named attribute spelled `name` in some letter case. *)
HasNamedAnyCase(el, name) ==
    \E i \in 1..Len(el.attributes) :
        /\ el.attributes[i].type = "Attribute"
        /\ el.attributes[i].name.type = "Identifier"
        /\ to_lowercase(el.attributes[i].name.name) = to_lowercase(name)

(* The element's `name` attribute: the first one, in any letter case. *)
AttrOf(el, name) ==
    el.attributes[CHOOSE i \in 1..Len(el.attributes) :
        /\ jsx_prop_matches(el.attributes[i], name)
        /\ \A j \in 1..(i - 1) : ~jsx_prop_matches(el.attributes[j], name)]

IsLiteral(el, name) ==
    HasNamedAnyCase(el, name) /\ AttrOf(el, name).value.type = "StringLiteral"

IsExpression(el, name) ==
    HasNamedAnyCase(el, name) /\ AttrOf(el, name).value.type = "ExpressionContainer"

IsBare(el, name) ==
    HasNamedAnyCase(el, name) /\ AttrOf(el, name).value.type = "None"

NamedElement(el, name) == el.name.type = "Identifier" /\ el.name.name = name

TableRoles ==
    {ROLE_TO_REQUIRED_ARIA_PROPS[i][1] : i \in 1..Len(ROLE_TO_REQUIRED_ARIA_PROPS)}

RequiredOf(role) ==
    LET e == ROLE_TO_REQUIRED_ARIA_PROPS[
                 CHOOSE i \in 1..Len(ROLE_TO_REQUIRED_ARIA_PROPS) :
                     ROLE_TO_REQUIRED_ARIA_PROPS[i][1] = role][2]
    IN  {e[i] : i \in 1..Len(e)}

MissingOf(el, role) ==
    IF role \in TableRoles
    THEN {p \in RequiredOf(role) : ~HasNamedAnyCase(el, p)}
    ELSE {}

-----------------------------------------------------------------------------
(* C1. Presence completeness.  When role_has_required_aria_props has run   *)
(* on an element whose role attribute is a string literal equal to a role  *)
(* R of the table, it has reported exactly one diagnostic for each         *)
(* required prop of R that no named attribute of the element matches in    *)
(* any letter case, and none for a prop that is present, with or without   *)
(* a value.                                                                *)
C1_PresenceCompleteness ==
    (/\ HasRun("RoleHasRequiredAriaProps")
     /\ IsLiteral(cur, S_role)
     /\ AttrOf(cur, S_role).value.value \in TableRoles)
    => LET R == AttrOf(cur, S_role).value.value
           ds == ReportsOn("RoleHasRequiredAriaProps", pos)
       IN  /\ Len(ds) = Cardinality(MissingOf(cur, R))
           /\ \A p \in RequiredOf(R) :
                 Cardinality({i \in 1..Len(ds) : ds[i].props = p /\ ds[i].role = R})
                     = IF HasNamedAnyCase(cur, p) THEN 0 ELSE 1

(* A combobox with one of its two required props: one diagnostic. *)
C1_Witness ==
    /\ HasRun("RoleHasRequiredAriaProps")
    /\ IsLiteral(cur, S_role)
    /\ AttrOf(cur, S_role).value.value = S_combobox
    /\ HasNamed(cur, S_aria_controls)
    /\ Len(ReportsOn("RoleHasRequiredAriaProps", pos)) = 1

(* C2. Non-literal suppression.  When role_has_required_aria_props has run *)
(* on an element whose role attribute has an expression value or no value, *)
(* it has reported nothing for the element, whatever its other attributes. *)
C2_NonLiteralSuppression ==
    (/\ HasRun("RoleHasRequiredAriaProps")
     /\ IsExpression(cur, S_role) \/ IsBare(cur, S_role))
    => ReportsOn("RoleHasRequiredAriaProps", pos) = <<>>

(* role={role || 'checkbox'} on an element without aria-checked *)
C2_Witness ==
    /\ HasRun("RoleHasRequiredAriaProps")
    /\ IsExpression(cur, S_role)
    /\ AttrOf(cur, S_role).value.expression = "LogicalExpression"
    /\ ~HasNamedAnyCase(cur, S_aria_checked)
    /\ diagnostics = <<>>

(* C3. The claim as stated: when google_font_preconnect has run on a link  *)
(* element whose href or rel value is an expression, it has reported       *)
(* nothing for the element.                                                *)
C3_AmbiguousStructure ==
    (/\ HasRun("GoogleFontPreconnect")
     /\ NamedElement(cur, S_link)
     /\ IsExpression(cur, S_href) \/ IsExpression(cur, S_rel))
    => ReportsOn("GoogleFontPreconnect", pos) = <<>>

-----------------------------------------------------------------------------
(* The element with every attribute name written in lower case. *)
LowerNames(el) ==
    [el EXCEPT !.attributes =
        [i \in 1..Len(el.attributes) |->
            IF el.attributes[i].type = "Attribute"
               /\ el.attributes[i].name.type = "Identifier"
            THEN [el.attributes[i] EXCEPT !.name.name = to_lowercase(@)]
            ELSE el.attributes[i]]]

SomeNameNotLower(el) ==
    \E i \in 1..Len(el.attributes) :
        /\ el.attributes[i].type = "Attribute"
        /\ el.attributes[i].name.type = "Identifier"
        /\ to_lowercase(el.attributes[i].name.name) # el.attributes[i].name.name

(* C4. The claim as stated: in each of the three rules the diagnostic      *)
(* count of an element is its count with the attribute names in lower      *)
(* case.                                                                   *)
C4_CaseInsensitiveEveryRule ==
    \A rule \in Rules :
        HasRun(rule) => Len(ReportsOn(rule, pos)) = CountFor(rule, LowerNames(cur))

(* C4, amended.  role_has_required_aria_props and google_font_preconnect   *)
(* match attribute names in any letter case: the count of an element is    *)
(* its count with the names in lower case.  no_sync_scripts matches `src`, *)
(* `async` and `defer` as written: an element with no attribute spelled    *)
(* exactly `src` gets nothing, and `Async` does not stand for `async`.     *)
C4_CaseInsensitiveLookup ==
    /\ \A rule \in {"RoleHasRequiredAriaProps", "GoogleFontPreconnect"} :
          HasRun(rule) => Len(ReportsOn(rule, pos)) = CountFor(rule, LowerNames(cur))
    /\ (HasRun("NoSyncScripts") /\ ~HasNamed(cur, S_src))
          => ReportsOn("NoSyncScripts", pos) = <<>>
    /\ (/\ HasRun("NoSyncScripts")
        /\ NamedElement(cur, S_script)
        /\ HasNamed(cur, S_src)
        /\ ~HasNamed(cur, S_async)
        /\ ~HasNamed(cur, S_defer))
          => Len(ReportsOn("NoSyncScripts", pos)) = 1

(* <link href="https://fonts.gstatic.com" REL="preconnect"/>: nothing *)
C4_Witness ==
    /\ HasRun("GoogleFontPreconnect")
    /\ NamedElement(cur, S_link)
    /\ HasNamed(cur, S_REL)
    /\ IsLiteral(cur, S_href)
    /\ AttrOf(cur, S_href).value.value = S_fonts_gstatic
    /\ AttrOf(cur, S_rel).value = StringLiteral(S_preconnect)
    /\ diagnostics = <<>>

-----------------------------------------------------------------------------
(* The element with a spread attribute put after its first i attributes,   *)
(* and the element without its attribute i.                                *)
InsertSpread(el, i) ==
    [el EXCEPT !.attributes =
        SubSeq(@, 1, i) \o <<JSXSpreadAttribute>> \o SubSeq(@, i + 1, Len(@))]

RemoveAt(el, i) ==
    [el EXCEPT !.attributes = SubSeq(@, 1, i - 1) \o SubSeq(@, i + 1, Len(@))]

(* C5. Spread conservatism.  In each of the three rules a spread attribute *)
(* stands for no attribute: the diagnostic count of an element does not    *)
(* change when a spread attribute is added anywhere or removed, and an     *)
(* element with only spread attributes gets nothing.                       *)
C5_SpreadConservatism ==
    \A rule \in Rules :
        HasRun(rule) =>
            LET n == Len(ReportsOn(rule, pos))
            IN  /\ \A i \in 0..Len(cur.attributes) :
                      CountFor(rule, InsertSpread(cur, i)) = n
                /\ \A i \in 1..Len(cur.attributes) :
                      cur.attributes[i].type = "SpreadAttribute"
                          => CountFor(rule, RemoveAt(cur, i)) = n
                /\ (\A i \in 1..Len(cur.attributes) :
                       cur.attributes[i].type = "SpreadAttribute") => n = 0

(* <script src {...props}>: still one diagnostic *)
C5_Witness ==
    /\ HasRun("NoSyncScripts")
    /\ NamedElement(cur, S_script)
    /\ HasNamed(cur, S_src)
    /\ \E i \in 1..Len(cur.attributes) : cur.attributes[i].type = "SpreadAttribute"
    /\ Len(diagnostics) = 1

-----------------------------------------------------------------------------
(* C6. When no_sync_scripts has run on an element, it has reported one     *)
(* diagnostic, on the element's name, if the name is the identifier        *)
(* `script` and the element has a named attribute `src` (of any value) and *)
(* neither a named attribute `async` nor `defer`; and nothing otherwise.   *)
C6_NoSyncScripts ==
    HasRun("NoSyncScripts") =>
        ReportsOn("NoSyncScripts", pos) =
            IF /\ NamedElement(cur, S_script)
               /\ HasNamed(cur, S_src)
               /\ ~HasNamed(cur, S_async)
               /\ ~HasNamed(cur, S_defer)
            THEN <<NoSyncScriptsDiagnostic(cur.name.span)>>
            ELSE <<>>

(* <script src={props.src}>: one diagnostic *)
C6_Witness ==
    /\ HasRun("NoSyncScripts")
    /\ NamedElement(cur, S_script)
    /\ IsExpression(cur, S_src)
    /\ Len(cur.attributes) = 1
    /\ Len(diagnostics) = 1

-----------------------------------------------------------------------------
(* C7. When google_font_preconnect has run on an element: if the element   *)
(* is a `link` whose href is a string literal starting with                *)
(* "https://fonts.gstatic.com", it has reported one diagnostic when rel is *)
(* missing or is a literal other than exactly "preconnect", and nothing    *)
(* when rel is the literal "preconnect"; it has reported nothing if the    *)
(* element is not a `link` or its literal href does not start so.          *)
C7_ExactRel ==
    HasRun("GoogleFontPreconnect") =>
        LET n == Len(ReportsOn("GoogleFontPreconnect", pos))
            font == /\ IsLiteral(cur, S_href)
                    /\ starts_with(AttrOf(cur, S_href).value.value, S_fonts_gstatic)
        IN  /\ (NamedElement(cur, S_link) /\ font /\ ~HasNamedAnyCase(cur, S_rel))
                   => n = 1
            /\ (NamedElement(cur, S_link) /\ font /\ IsLiteral(cur, S_rel))
                   => n = IF AttrOf(cur, S_rel).value.value = S_preconnect
                          THEN 0 ELSE 1
            /\ ~NamedElement(cur, S_link) => n = 0
            /\ (IsLiteral(cur, S_href) /\ ~font) => n = 0

(* <link href="https://fonts.gstatic.com" rel="preconnect noopener"/> *)
C7_Witness ==
    /\ HasRun("GoogleFontPreconnect")
    /\ NamedElement(cur, S_link)
    /\ IsLiteral(cur, S_href)
    /\ IsLiteral(cur, S_rel)
    /\ AttrOf(cur, S_rel).value.value = S_preconnect_noopener
    /\ Len(diagnostics) = 1

-----------------------------------------------------------------------------
(* ds is, for each token in order, one diagnostic for each required prop  *)
(* of the token that el lacks, each on the span of the role attribute.     *)
RECURSIVE ReportsEveryToken(_, _, _)
ReportsEveryToken(ds, el, tokens) ==
    IF tokens = <<>>
    THEN ds = <<>>
    ELSE LET missing == MissingOf(el, Head(tokens))
             n == Cardinality(missing)
         IN  /\ Len(ds) >= n
             /\ {ds[i].props : i \in 1..n} = missing
             /\ \A i \in 1..n :
                   /\ ds[i].role = Head(tokens)
                   /\ ds[i].span = AttrOf(el, S_role).span
             /\ ReportsEveryToken(SubSeq(ds, n + 1, Len(ds)), el, Tail(tokens))

(* C10. When role_has_required_aria_props has run on an element with a     *)
(* literal role, whatever the element's name, its diagnostics are, for     *)
(* each whitespace-separated token of the role in order (a repeated token  *)
(* each time), one for each required prop of the token the element lacks;  *)
(* a token not in the table gives none; each carries the span of the role  *)
(* attribute.                                                              *)
C10_EveryToken ==
    (HasRun("RoleHasRequiredAriaProps") /\ IsLiteral(cur, S_role)) =>
        ReportsEveryToken(ReportsOn("RoleHasRequiredAriaProps", pos), cur,
                          split_whitespace(AttrOf(cur, S_role).value.value))

(* role="checkbox checkbox" without aria-checked: two diagnostics *)
C10_Witness ==
    /\ HasRun("RoleHasRequiredAriaProps")
    /\ IsLiteral(cur, S_role)
    /\ AttrOf(cur, S_role).value.value = S_checkbox_checkbox
    /\ Len(diagnostics) = 2
    /\ diagnostics[1] = diagnostics[2]

-----------------------------------------------------------------------------
(* What a rule reports when it alone runs over the nodes of the file it    *)
(* has been invoked on so far, each on an empty sink.                      *)
RECURSIVE AloneUpTo(_, _)
AloneUpTo(rule, k) ==
    IF k = 0
    THEN <<>>
    ELSE AloneUpTo(rule, k - 1)
         \o (IF HasRunOn(rule, k) THEN rule_run(rule, tree[k], <<>>) ELSE <<>>)

(* C8. Independence of rules.  Whatever the registry and its order, the    *)
(* diagnostics of each rule in the sink, in their order, are those the     *)
(* rule gives when it runs alone over the nodes it has been invoked on.    *)
C8_Independence ==
    \A rule \in Rules : OwnDiagnostics(rule) = AloneUpTo(rule, Len(tree))

(* A finished traversal by the three rules whose diagnostics interleave. *)
C8_Witness ==
    /\ pos > Len(tree)
    /\ Len(registry) = 3
    /\ \E i, j, k \in 1..Len(diagnostics) :
          /\ i < j
          /\ j < k
          /\ diagnostics[i].kind = diagnostics[k].kind
          /\ diagnostics[i].kind # diagnostics[j].kind

IsPrefix(s, t) == Len(s) <= Len(t) /\ SubSeq(t, 1, Len(s)) = s

(* C9. Append-only sink with fast reject.  Every step of the traversal     *)
(* leaves the sink it found as a prefix of the sink it leaves, and a rule  *)
(* invoked on a node that is no JSX opening element leaves the sink as it  *)
(* found it.                                                               *)
C9_AppendOnly ==
    [][/\ IsPrefix(diagnostics, diagnostics')
       /\ (pos <= Len(tree) /\ cur.kind # "JSXOpeningElement")
              => diagnostics' = diagnostics]_vars

(* A rule has appended to a sink that held another node's diagnostics. *)
C9_Witness ==
    /\ pos <= Len(tree)
    /\ ruleIdx > 1
    /\ \E i \in 1..Len(diagnostics) : diagnostics[i].span.node < pos
    /\ diagnostics[Len(diagnostics)].span.node = pos
    /\ diagnostics[Len(diagnostics)].kind = DiagnosticOf(registry[ruleIdx - 1])

=============================================================================
